---- MODULE Spec2Model ----
(***************************************************************************)
(* Model of the Pep-Dose structuring and claim-extraction pipeline:        *)
(*   src/src/pipeline/parse_structure.py   (HTML -> section tree)          *)
(*   src/src/pipeline/extract_claims.py    (section tree -> typed claims)  *)
(*                                                                         *)
(* Texts are TLA+ strings; Python's string methods are modelled character  *)
(* by character (SubSeq on strings), so that cleaning, lower-casing and    *)
(* substring search are computed, not assumed.                             *)
(***************************************************************************)
EXTENDS Integers, Sequences, FiniteSets, TLC

VARIABLES
    \* extract_claims.py, the pure text functions applied to one text
    text, claim_type, flags, extracted,
    \* parse_structure.py, _parse_sections applied to one document
    html, parsed,
    \* parse_structure.py, main: the raw HTML files on disk and the loop over
    \* the manifest
    raw_files, manifest, item_idx, out_dir, written, run_state,
    \* extract_claims.py, main: the loop over the parsed pages
    pages, page_idx, out_jsonl, total, by_type, by_flag, by_slug, summary

textVars    == <<text, claim_type, flags, extracted>>
parseVars   == <<html, parsed>>
mainVars    == <<raw_files, manifest, item_idx, out_dir, written, run_state>>
extractVars == <<pages, page_idx, out_jsonl, total, by_type, by_flag, by_slug, summary>>
vars        == <<textVars, parseVars, mainVars, extractVars>>

\* The value of a variable that the running program has not set (Python's None).
\* A variable that holds a record or a list once set (flags, parsed, summary)
\* is <<>> until then and <<value>> afterwards.
None == "None"

(***************************************************************************)
(* Bounds of the model.                                                    *)
(***************************************************************************)
\* fragments joined into one input text of the text functions
MaxFrags == 2
\* top-level nodes of a general document
MaxTop   == 3
\* headings of a headings-only document
MaxHeads == 5
\* entries of the manifest / parsed pages of one run
MaxItems == 3
MaxPages == 3
MaxNumFrags == 3
MaxSibs == 4

(***************************************************************************)
(* Python strings.                                                         *)
(***************************************************************************)
Chr(s, i) == SubSeq(s, i, i)

\* U+00A0 (no-break space), written with a printable stand-in character.
NBSP == "~"

\* str.isspace() on the characters the model's texts use.
IsSpace(c) == c \in {" ", "\n", "\t", "\r", NBSP}

UpperCase == "ABCDEFGHIJKLMNOPQRSTUVWXYZ"
LowerCase == "abcdefghijklmnopqrstuvwxyz"

\* the lower-case letter of every upper-case letter
LowerOf == [c \in {Chr(UpperCase, k) : k \in 1..26} |->
               Chr(LowerCase, CHOOSE k \in 1..26 : Chr(UpperCase, k) = c)]

LowerChar(c) == IF c \in DOMAIN LowerOf THEN LowerOf[c] ELSE c

\* str.lower(): every character mapped, computed by halving the string
RECURSIVE Lower(_)
Lower(s) ==
    IF Len(s) = 0 THEN ""
    ELSE IF Len(s) = 1 THEN LowerChar(s)
    ELSE LET h == Len(s) \div 2
         IN  Lower(SubSeq(s, 1, h)) \o Lower(SubSeq(s, h + 1, Len(s)))

\* k in t
Contains(t, k) ==
    \E i \in 1..(Len(t) - Len(k) + 1) : SubSeq(t, i, i + Len(k) - 1) = k

\* any(k in t for k in ks)
AnyIn(t, ks) == \E k \in ks : Contains(t, k)

RECURSIVE LStrip(_), RStrip(_)
LStrip(s) == IF Len(s) > 0 /\ IsSpace(Chr(s, 1)) THEN LStrip(SubSeq(s, 2, Len(s))) ELSE s
RStrip(s) == IF Len(s) > 0 /\ IsSpace(Chr(s, Len(s))) THEN RStrip(SubSeq(s, 1, Len(s) - 1)) ELSE s

\* str.strip()
Strip(s) == RStrip(LStrip(s))

\* str.replace(old, new) for a one-character old
RECURSIVE ReplaceChar(_, _, _)
ReplaceChar(s, old, new) ==
    IF Len(s) = 0 THEN ""
    ELSE IF Len(s) = 1 THEN (IF s = old THEN new ELSE s)
    ELSE LET h == Len(s) \div 2
         IN  ReplaceChar(SubSeq(s, 1, h), old, new)
             \o ReplaceChar(SubSeq(s, h + 1, Len(s)), old, new)

\* str.split(): the maximal runs of non-whitespace characters, in order
RECURSIVE SplitFrom(_, _, _)
SplitFrom(s, i, cur) ==
    IF i > Len(s) THEN (IF cur = "" THEN <<>> ELSE <<cur>>)
    ELSE IF IsSpace(Chr(s, i))
         THEN (IF cur = "" THEN <<>> ELSE <<cur>>) \o SplitFrom(s, i + 1, "")
         ELSE SplitFrom(s, i + 1, cur \o Chr(s, i))
Split(s) == SplitFrom(s, 1, "")

\* sep.join(parts)
RECURSIVE Join(_, _)
Join(sep, parts) ==
    IF Len(parts) = 0 THEN ""
    ELSE IF Len(parts) = 1 THEN parts[1]
    ELSE parts[1] \o sep \o Join(sep, Tail(parts))

\* Code points of the characters that occur in the names the program sorts.
OrdChars == "_abcdefghijklmnopqrstuvwxyz"
Ord(c) == CHOOSE k \in 1..Len(OrdChars) : Chr(OrdChars, k) = c

\* a < b for Python strings: the first differing character decides, a proper
\* prefix is smaller
RECURSIVE StrLess(_, _)
StrLess(a, b) ==
    IF Len(b) = 0 THEN FALSE
    ELSE IF Len(a) = 0 THEN TRUE
    ELSE IF Chr(a, 1) = Chr(b, 1)
         THEN StrLess(SubSeq(a, 2, Len(a)), SubSeq(b, 2, Len(b)))
         ELSE Ord(Chr(a, 1)) < Ord(Chr(b, 1))

\* sorted(set(xs)) for a list of strings
RECURSIVE SortedOfSet(_)
SortedOfSet(S) ==
    IF S = {} THEN <<>>
    ELSE LET m == CHOOSE x \in S : \A y \in S \ {x} : StrLess(x, y)
         IN  <<m>> \o SortedOfSet(S \ {m})
SeqRange(s) == {s[i] : i \in 1..Len(s)}

(***************************************************************************)
(* extract_claims.py: _flags and _classify_line.                           *)
(***************************************************************************)
\* the list built by the six independent checks, in the order of the code
FlagsRaw(t) ==
       (IF AnyIn(t, {"pregnant", "breastfeeding"})
        THEN <<"pregnancy_or_breastfeeding">> ELSE <<>>)
    \o (IF Contains(t, "cancer") THEN <<"cancer">> ELSE <<>>)
    \o (IF AnyIn(t, {"not a drug", "not for human consumption", "research-use only",
                     "research use only", "not medical advice"})
        THEN <<"disclaimer_present">> ELSE <<>>)
    \o (IF AnyIn(t, {"prep & injection guide", "injection guide", "reconstitution",
                     "bac water", "bacteriostatic"})
        THEN <<"injection_or_reconstitution_reference">> ELSE <<>>)
    \o (IF AnyIn(t, {"increase dose", "titrate", "intervals", "as necessary",
                     "maximum dose"})
        THEN <<"titration_language">> ELSE <<>>)
    \o (IF AnyIn(t, {"stack", "stacking", "pairings", "suggested pairings"})
        THEN <<"stacking_language">> ELSE <<>>)

\* a plausible slip: the list is returned in the order the checks appended it
FlagsUnsorted(t) == FlagsRaw(Lower(t))

\* _flags(text)
Flags(t) == SortedOfSet(SeqRange(FlagsRaw(Lower(t))))

CLAIM_TYPES ==
    {"overview", "benefit", "mechanism", "contraindication", "warning",
     "reconstitution", "dosing_observed", "schedule_observed", "cycle_observed",
     "titration_observed", "stacking_observed", "storage", "side_effect", "other"}

OverviewLen == 140

\* the cascade of _classify_line over the lower-cased text t; raw is the text
\* whose length decides the fallback
Cascade(t, raw) ==
    IF AnyIn(t, {"contraindication", "do not take if", "do not use if"})
    THEN "contraindication"
    ELSE IF AnyIn(t, {"warning", "important:", "mistake", "risk", "danger"})
    THEN "warning"
    ELSE IF AnyIn(t, {"reconstitution", "mix with", "bac water", "bacteriostatic",
                      "dilution", "reconstitute"})
    THEN "reconstitution"
    ELSE IF AnyIn(t, {"storage", "refriger", "room temperature", "freeze", "shelf life"})
    THEN "storage"
    ELSE IF AnyIn(t, {"side effects", "adverse", "nausea", "headache", "fatigue",
                      "insomnia"})
    THEN "side_effect"
    ELSE IF AnyIn(t, {"cycle", "washout"})
    THEN "cycle_observed"
    ELSE IF AnyIn(t, {"daily", "weekly", "1x/day", "2x/day", "every", "per week"})
    THEN "schedule_observed"
    ELSE IF AnyIn(t, {"dose", "units", "mcg", "mg", "iu", "ml"})
    THEN "dosing_observed"
    ELSE IF AnyIn(t, {"increase dose", "titrate", "intervals", "maximum dose"})
    THEN "titration_observed"
    ELSE IF AnyIn(t, {"stacking", "suggested pairings", "pairings"})
    THEN "stacking_observed"
    ELSE IF AnyIn(t, {"mechanism", "pathway", "receptor", "binds", "agonist",
                      "antagonist"})
    THEN "mechanism"
    ELSE IF AnyIn(t, {"benefit", "helps", "improves", "useful in", "promotes",
                      "supports"})
    THEN "benefit"
    ELSE IF Len(raw) >= OverviewLen THEN "overview"
    ELSE "other"

\* a plausible slip: the keywords are searched in the text as written
ClassifyLineCaseSensitive(t) == Cascade(t, t)

\* _classify_line(text)
ClassifyLine(t) == Cascade(Lower(t), t)

(***************************************************************************)
(* Input texts of the text functions: up to MaxFrags fragments joined by a *)
(* space.                                                                  *)
(***************************************************************************)
RECURSIVE Repeat(_, _)
Repeat(c, n) ==
    IF n = 0 THEN ""
    ELSE IF n = 1 THEN c
    ELSE Repeat(c, n \div 2) \o Repeat(c, n - (n \div 2))

Fragments ==
    {"Do not take if", "WARNING", "dose", "Bac Water", "Refrigerate", "nausea",
     "cycle", "Daily", "titrate", "Stacking", "receptor", "supports",
     "pregnant", "research use only", "Cancer", "x", Repeat("z", OverviewLen - 1)}

RECURSIVE FragSeqs(_)
FragSeqs(n) ==
    IF n = 0 THEN {<<>>}
    ELSE LET shorter == FragSeqs(n - 1)
         IN  shorter \cup {Append(s, f) : s \in {q \in shorter : Len(q) = n - 1},
                                          f \in Fragments}

Texts == {Join(" ", s) : s \in FragSeqs(MaxFrags)}

\* The variables of the programs that do not run under a specification keep
\* their idle values.
TextIdle == text = None /\ claim_type = None /\ flags = <<>> /\ extracted = <<>>
ParseIdle == html = None /\ parsed = <<>>
MainIdle ==
    /\ raw_files = None /\ manifest = None /\ item_idx = 0 /\ out_dir = None
    /\ written = 0 /\ run_state = None
ExtractIdle ==
    /\ pages = None /\ page_idx = 0 /\ out_jsonl = None /\ total = 0
    /\ by_type = None /\ by_flag = None /\ by_slug = None /\ summary = <<>>

TextInit ==
    /\ text \in Texts
    /\ claim_type = None
    /\ flags = <<>>
    /\ extracted = <<>>
    /\ ParseIdle /\ MainIdle /\ ExtractIdle

\* claim_type = _classify_line(text)
DoClassify ==
    /\ claim_type = None
    /\ claim_type' = ClassifyLine(text)
    /\ UNCHANGED <<text, flags, extracted, parseVars, mainVars, extractVars>>

\* flags = _flags(text)
DoFlags ==
    /\ flags = <<>>
    /\ flags' = <<Flags(text)>>
    /\ UNCHANGED <<text, claim_type, extracted, parseVars, mainVars, extractVars>>

TextNext == DoClassify \/ DoFlags

SpecText == TextInit /\ [][TextNext]_vars

(***************************************************************************)
(* parse_structure.py: the document tree.                                  *)
(*                                                                         *)
(* A document is the tree BeautifulSoup built, below the container that    *)
(* _pick_container chose: its nodes in document order, node i being        *)
(* [name, text, parent].  The parent of a node is an earlier node, or 0,   *)
(* the container.  A text node (NavigableString) has the name TEXT and     *)
(* carries the text; a tag carries no text of its own.                     *)
(*                                                                         *)
(* _parse_sections moves nodes between parents, so the tree it works on is *)
(* a heap [par, kids]: par[i] is the current parent of node i and kids[c]  *)
(* the current children of c, in order.  The container is 0 and the        *)
(* temporary <div> of the k-th heading is Len(nodes) + k.                  *)
(***************************************************************************)
TEXT == "#text"
HeadingNames == {"h1", "h2", "h3", "h4"}
Dropped == {"script", "style", "noscript"}

IsTag(nodes, i) == nodes[i].name # TEXT

\* the identity sequence <<1, ..., n>>
Ids(n) == [i \in 1..n |-> i]

\* the tree after "for tag in soup([script, style, noscript]): tag.decompose()"
InitHeap(nodes, ntmp) ==
    LET n == Len(nodes)
    IN  [par  |-> [i \in 1..n |-> nodes[i].parent],
         kids |-> [c \in 0..(n + ntmp) |->
                     IF c > n THEN <<>>
                     ELSE SelectSeq(Ids(n), LAMBDA i : /\ nodes[i].parent = c
                                                       /\ nodes[i].name \notin Dropped)]]

\* the descendants of x in document order (x itself excluded)
RECURSIVE DescOf(_, _), DescList(_, _, _)
DescOf(kids, x) == DescList(kids, kids[x], 1)
DescList(kids, cs, i) ==
    IF i > Len(cs) THEN <<>>
    ELSE <<cs[i]>> \o DescOf(kids, cs[i]) \o DescList(kids, cs, i + 1)

\* x.find_all(names)
FindAll(nodes, kids, x, names) ==
    SelectSeq(DescOf(kids, x), LAMBDA i : nodes[i].name \in names)

\* x.get_text(sep, strip=True): the stripped, non-empty strings below x, joined
GetText(nodes, kids, x, sep) ==
    LET strs  == SelectSeq(DescOf(kids, x), LAMBDA i : ~IsTag(nodes, i))
        texts == [k \in 1..Len(strs) |-> Strip(nodes[strs[k]].text)]
    IN  Join(sep, SelectSeq(texts, LAMBDA t : t # ""))

\* _clean(s)
Clean(s) == Strip(Join(" ", Split(ReplaceChar(s, NBSP, " "))))

Digits == "0123456789"
DigitChars == {Chr(Digits, k) : k \in 1..10}
IsDigit(c) == c \in DigitChars
DigitValue(c) == (CHOOSE k \in 1..10 : Chr(Digits, k) = c) - 1

\* _heading_level(name)
HeadingLevel(name) ==
    IF Len(name) = 2 /\ Chr(name, 1) = "h" /\ IsDigit(Chr(name, 2))
    THEN DigitValue(Chr(name, 2))
    ELSE 9

BRAND == "research dosing"

\* max(candidates, key=len): the first of the longest
FirstLongest(cs) ==
    cs[CHOOSE i \in 1..Len(cs) :
           /\ \A j \in 1..Len(cs) : Len(cs[j]) <= Len(cs[i])
           /\ \A j \in 1..(i - 1) : Len(cs[j]) < Len(cs[i])]

\* the h2/h3 fallback of _pick_best_h1: only the first h2, then the first h3
RECURSIVE TitleFallback(_, _, _)
TitleFallback(nodes, kids, sels) ==
    IF Len(sels) = 0 THEN ""
    ELSE LET found == FindAll(nodes, kids, 0, {sels[1]})
             t     == IF Len(found) = 0 THEN ""
                      ELSE Clean(GetText(nodes, kids, found[1], " "))
         IN  IF t # "" /\ Lower(t) # BRAND THEN t
             ELSE TitleFallback(nodes, kids, Tail(sels))

\* _pick_best_h1(container)
PickBestH1(nodes, kids) ==
    LET h1s   == FindAll(nodes, kids, 0, {"h1"})
        texts == [k \in 1..Len(h1s) |-> Clean(GetText(nodes, kids, h1s[k], " "))]
        cands == SelectSeq(texts, LAMBDA t : t # "" /\ Lower(t) # BRAND)
    IN  IF Len(cands) > 0 THEN FirstLongest(cands)
        ELSE TitleFallback(nodes, kids, <<"h2", "h3">>)

(***************************************************************************)
(* parse_structure.py: _extract_blocks_recursive.                          *)
(***************************************************************************)
\* a plausible slip: the "if txt" test is missing
ParagraphBlocksKeepEmpty(nodes, kids, x) ==
    LET ps == FindAll(nodes, kids, x, {"p"})
    IN  [k \in 1..Len(ps) |->
            [type |-> "paragraph", text |-> Clean(GetText(nodes, kids, ps[k], " "))]]

\* the paragraph loop
ParagraphBlocks(nodes, kids, x) ==
    LET ps   == FindAll(nodes, kids, x, {"p"})
        txts == [k \in 1..Len(ps) |-> Clean(GetText(nodes, kids, ps[k], " "))]
        kept == SelectSeq(txts, LAMBDA t : t # "")
    IN  [k \in 1..Len(kept) |-> [type |-> "paragraph", text |-> kept[k]]]

\* the <li> nodes whose text becomes an item of the list ul: ul.find_all("li")
ListItemNodes(nodes, kids, ul) == FindAll(nodes, kids, ul, {"li"})

\* the items of one list: the non-empty cleaned texts of its item nodes
ListItems(nodes, kids, ul) ==
    LET lis  == ListItemNodes(nodes, kids, ul)
        txts == [k \in 1..Len(lis) |-> Clean(GetText(nodes, kids, lis[k], " "))]
    IN  SelectSeq(txts, LAMBDA t : t # "")

\* the list loop
ListBlocks(nodes, kids, x) ==
    LET uls  == FindAll(nodes, kids, x, {"ul", "ol"})
        kept == SelectSeq(uls, LAMBDA u : Len(ListItems(nodes, kids, u)) > 0)
    IN  [k \in 1..Len(kept) |->
            [type |-> "list", ordered |-> nodes[kept[k]].name = "ol",
             items |-> ListItems(nodes, kids, kept[k])]]

\* the cells of one row: the non-empty cleaned texts of its th/td
RowCells(nodes, kids, tr) ==
    LET tds   == FindAll(nodes, kids, tr, {"th", "td"})
        cells == [k \in 1..Len(tds) |-> Clean(GetText(nodes, kids, tds[k], " "))]
    IN  SelectSeq(cells, LAMBDA c : c # "")

\* the rows of one table: the non-empty rows
TableRows(nodes, kids, table) ==
    LET trs  == FindAll(nodes, kids, table, {"tr"})
        rows == [k \in 1..Len(trs) |-> RowCells(nodes, kids, trs[k])]
    IN  SelectSeq(rows, LAMBDA r : Len(r) > 0)

\* the table loop
TableBlocks(nodes, kids, x) ==
    LET tables == FindAll(nodes, kids, x, {"table"})
        kept   == SelectSeq(tables, LAMBDA t : Len(TableRows(nodes, kids, t)) > 0)
    IN  [k \in 1..Len(kept) |-> [type |-> "table", rows |-> TableRows(nodes, kids, kept[k])]]

\* str.splitlines(): the lines between the line breaks, a trailing break
\* opening no further line
RECURSIVE SplitLinesFrom(_, _, _)
SplitLinesFrom(s, i, cur) ==
    IF i > Len(s) THEN (IF cur = "" THEN <<>> ELSE <<cur>>)
    ELSE IF Chr(s, i) \in {"\n", "\r"}
         THEN <<cur>> \o SplitLinesFrom(s, i + 1, "")
         ELSE SplitLinesFrom(s, i + 1, cur \o Chr(s, i))
SplitLines(s) == SplitLinesFrom(s, 1, "")

RawLineCap == 200

\* the raw-text fallback, taken when the three loops found nothing
RawTextBlocks(nodes, kids, x) ==
    LET txt == Clean(GetText(nodes, kids, x, "\n"))
    IN  IF txt = "" THEN <<>>
        ELSE LET all   == SplitLines(txt)
                 strp  == [k \in 1..Len(all) |-> Strip(all[k])]
                 lines == SelectSeq(strp, LAMBDA l : l # "")
             IN  IF Len(lines) = 0 THEN <<>>
                 ELSE << [type |-> "raw_text",
                          text |-> Join("\n", SubSeq(lines, 1,
                                       IF Len(lines) < RawLineCap THEN Len(lines)
                                       ELSE RawLineCap))] >>

\* _extract_blocks_recursive(node)
ExtractBlocks(nodes, kids, x) ==
    LET blocks == ParagraphBlocks(nodes, kids, x) \o ListBlocks(nodes, kids, x)
                  \o TableBlocks(nodes, kids, x)
    IN  IF Len(blocks) = 0 THEN RawTextBlocks(nodes, kids, x) ELSE blocks

(***************************************************************************)
(* parse_structure.py: _parse_sections.                                    *)
(***************************************************************************)
\* a plausible slip: the brand heading is not skipped
HeadingsKeepBrand(nodes, kids) ==
    SelectSeq(FindAll(nodes, kids, 0, HeadingNames),
              LAMBDA h : Clean(GetText(nodes, kids, h, " ")) # "")

\* the headings of the container that are kept: not empty, not the brand
Headings(nodes, kids) ==
    SelectSeq(FindAll(nodes, kids, 0, HeadingNames),
              LAMBDA h : LET t == Clean(GetText(nodes, kids, h, " "))
                         IN  t # "" /\ Lower(t) # BRAND)

\* a plausible slip: only deeper headings are closed
RECURSIVE PopStackDeeperOnly(_, _)
PopStackDeeperOnly(stack, level) ==
    IF Len(stack) > 0 /\ stack[Len(stack)][1] > level
    THEN PopStackDeeperOnly(SubSeq(stack, 1, Len(stack) - 1), level)
    ELSE stack

\* a plausible slip: "if" for "while", one entry is closed at most
PopStackOnce(stack, level) ==
    IF Len(stack) > 0 /\ stack[Len(stack)][1] >= level
    THEN SubSeq(stack, 1, Len(stack) - 1)
    ELSE stack

\* while stack and stack[-1][0] >= level: stack.pop()
RECURSIVE PopStack(_, _)
PopStack(stack, level) ==
    IF Len(stack) > 0 /\ stack[Len(stack)][1] >= level
    THEN PopStack(SubSeq(stack, 1, Len(stack) - 1), level)
    ELSE stack

StepCap == 800

\* a plausible slip: the walk ends at any heading, deeper ones too
RECURSIVE WalkSiblingsToAnyHeading(_, _, _, _, _)
WalkSiblingsToAnyHeading(nodes, sibs, j, steps, level) ==
    IF j > Len(sibs) \/ steps >= StepCap THEN <<>>
    ELSE LET name == nodes[sibs[j]].name
         IN  IF name \in HeadingNames THEN <<>>
             ELSE (IF IsTag(nodes, sibs[j]) THEN <<sibs[j]>> ELSE <<>>)
                  \o WalkSiblingsToAnyHeading(nodes, sibs, j + 1, steps + 1, level)

\* the walk over the siblings sibs[j..] of a heading of this level: the tags
\* collected before the walk ends at a heading of the same or a higher rank,
\* at the last sibling, or after StepCap steps
RECURSIVE WalkSiblings(_, _, _, _, _)
WalkSiblings(nodes, sibs, j, steps, level) ==
    IF j > Len(sibs) \/ steps >= StepCap THEN <<>>
    ELSE LET name == nodes[sibs[j]].name
         IN  IF name \in HeadingNames /\ HeadingLevel(name) <= level THEN <<>>
             ELSE (IF IsTag(nodes, sibs[j]) THEN <<sibs[j]>> ELSE <<>>)
                  \o WalkSiblings(nodes, sibs, j + 1, steps + 1, level)

\* region_nodes of heading h in the heap hp
RegionNodes(nodes, hp, h) ==
    LET sibs == hp.kids[hp.par[h]]
        pos  == CHOOSE j \in 1..Len(sibs) : sibs[j] = h
    IN  WalkSiblings(nodes, sibs, pos + 1, 0, HeadingLevel(nodes[h].name))

\* tmp.append(n) for every n of region: n leaves its parent and becomes the
\* last child of tmp
RECURSIVE MoveAll(_, _, _, _)
MoveAll(hp, region, i, tmp) ==
    IF i > Len(region) THEN hp
    ELSE LET n   == region[i]
             old == hp.par[n]
             cut == [hp.kids EXCEPT ![old] = SelectSeq(@, LAMBDA c : c # n)]
         IN  MoveAll([par  |-> [hp.par EXCEPT ![n] = tmp],
                      kids |-> [cut EXCEPT ![tmp] = Append(@, n)]],
                     region, i + 1, tmp)

\* the loop "for h in headings", from the k-th heading on; st is
\* [hp, stack, sections, regions, stacks], regions recording per heading the
\* nodes below tmp when the blocks are extracted from it, and stacks the stack
\* after the heading was pushed
RECURSIVE SectionLoop(_, _, _, _)
SectionLoop(nodes, hs, k, st) ==
    IF k > Len(hs) THEN st
    ELSE LET h      == hs[k]
             level  == HeadingLevel(nodes[h].name)
             htext  == Clean(GetText(nodes, st.hp.kids, h, " "))
             stack  == Append(PopStack(st.stack, level), <<level, htext>>)
             path   == [i \in 1..Len(stack) |-> stack[i][2]]
             region == RegionNodes(nodes, st.hp, h)
             tmp    == Len(nodes) + k
             hp     == MoveAll(st.hp, region, 1, tmp)
             blocks == ExtractBlocks(nodes, hp.kids, tmp)
         IN  SectionLoop(nodes, hs, k + 1,
                 [hp       |-> hp,
                  stack    |-> stack,
                  sections |-> Append(st.sections, [path |-> path, blocks |-> blocks]),
                  regions  |-> Append(st.regions, DescOf(hp.kids, tmp)),
                  stacks   |-> Append(st.stacks, stack)])

\* the sections of the document and, per section, the nodes that were handed
\* to _extract_blocks_recursive
ParseTrace(doc) ==
    LET nodes == doc.nodes
        hp0   == InitHeap(nodes, 0)
        hs    == Headings(nodes, hp0.kids)
    IN  IF Len(hs) = 0
        THEN [sections |-> << [path |-> <<"ROOT">>,
                               blocks |-> ExtractBlocks(nodes, hp0.kids, 0)] >>,
              regions  |-> << DescOf(hp0.kids, 0) >>,
              stacks   |-> <<>>]
        ELSE LET st == SectionLoop(nodes, hs, 1,
                           [hp |-> InitHeap(nodes, Len(hs)), stack |-> <<>>,
                            sections |-> <<>>, regions |-> <<>>, stacks |-> <<>>])
             IN  [sections |-> st.sections, regions |-> st.regions,
                  stacks |-> st.stacks]

\* _parse_sections(html)
ParseSections(doc) ==
    LET kids0 == InitHeap(doc.nodes, 0).kids
    IN  [title    |-> IF doc.title = None THEN "" ELSE Clean(Strip(doc.title)),
         h1       |-> PickBestH1(doc.nodes, kids0),
         sections |-> ParseTrace(doc).sections]

(***************************************************************************)
(* Input documents.  A document is a sequence of top-level subtrees, each  *)
(* written as its nodes in document order with up, the place of the parent *)
(* within the subtree (0: the subtree hangs from the container).           *)
(***************************************************************************)
El(name, up) == [name |-> name, text |-> "", up |-> up]
Tx(t, up) == [name |-> TEXT, text |-> t, up |-> up]

\* <hN>text</hN>
HeadingTree(name, t) == << El(name, 0), Tx(t, 1) >>

Subtrees ==
    { \* the site header: <h1>Research&nbsp;Dosing </h1>
      HeadingTree("h1", "Research" \o NBSP \o "Dosing "),
      HeadingTree("h2", "Dosing"),
      \* the site name once more, as a second-level heading
      HeadingTree("h2", "RESEARCH dosing"),
      HeadingTree("h3", "Titration"),
      \* <p> Take&nbsp;2 mg\n</p>
      << El("p", 0), Tx(" Take" \o NBSP \o "2 mg\n", 1) >>,
      \* <p> </p>
      << El("p", 0), Tx(" ", 1) >>,
      \* text directly in the container
      << Tx("loose text", 0) >>,
      \* <span>inline</span>
      << El("span", 0), Tx("inline", 1) >>,
      \* <div><h3>Inner</h3><p>in div</p></div>
      << El("div", 0), El("h3", 1), Tx("Inner", 2), El("p", 1), Tx("in div", 4) >>,
      \* <ul><li>a<ol><li> </li><li>b</li></ol></li></ul>
      << El("ul", 0), El("li", 1), Tx("a", 2), El("ol", 2), El("li", 4), Tx(" ", 5),
         El("li", 4), Tx("b", 7) >>,
      \* <table><tr><th>c</th><td> </td></tr><tr><td></td></tr></table>
      << El("table", 0), El("tr", 1), El("th", 2), Tx("c", 3), El("td", 2), Tx(" ", 5),
         El("tr", 1), El("td", 7) >> }

\* the nodes of the subtrees, in document order, with their parents
RECURSIVE Flatten(_, _, _)
Flatten(trees, i, acc) ==
    IF i > Len(trees) THEN acc
    ELSE LET base == Len(acc)
             t    == trees[i]
         IN  Flatten(trees, i + 1,
                 acc \o [k \in 1..Len(t) |->
                           [name |-> t[k].name, text |-> t[k].text,
                            parent |-> IF t[k].up = 0 THEN 0 ELSE base + t[k].up]])

Document(trees) == [title |-> " Page  title ", nodes |-> Flatten(trees, 1, <<>>)]

RECURSIVE TreeSeqs(_)
TreeSeqs(n) ==
    IF n = 0 THEN {<<>>}
    ELSE LET shorter == TreeSeqs(n - 1)
         IN  shorter \cup {Append(s, t) : s \in {q \in shorter : Len(q) = n - 1},
                                          t \in Subtrees}

\* documents of up to MaxTop subtrees
GeneralDocs == {Document(ts) : ts \in TreeSeqs(MaxTop)}

RECURSIVE LevelSeqs(_)
LevelSeqs(n) ==
    IF n = 0 THEN {<<>>}
    ELSE LET shorter == LevelSeqs(n - 1)
         IN  shorter \cup {Append(s, l) : s \in {q \in shorter : Len(q) = n - 1},
                                          l \in 1..4}

\* <hL>S<k></hL><p>P<k></p> for the k-th heading, of level L
HeadedPart(level, k) ==
    << El("h" \o ToString(level), 0), Tx("S" \o ToString(k), 1),
       El("p", 0), Tx("P" \o ToString(k), 3) >>

\* documents of up to MaxHeads headings of any levels, each followed by a
\* paragraph; the texts tell the headings apart
HeadingDocs ==
    {Document([k \in 1..Len(ls) |-> HeadedPart(ls[k], k)]) : ls \in LevelSeqs(MaxHeads)}

\* the children of one container: headings, the site header between them,
\* and content with and without a block of its own
SiblingTrees ==
    { HeadingTree("h2", "Dosing"),
      HeadingTree("h1", "Research" \o NBSP \o "Dosing "),
      HeadingTree("h3", "Titration"),
      << El("p", 0), Tx(" Take" \o NBSP \o "2 mg\n", 1) >>,
      << El("span", 0), Tx("inline", 1) >> }

RECURSIVE SiblingSeqs(_)
SiblingSeqs(n) ==
    IF n = 0 THEN {<<>>}
    ELSE LET shorter == SiblingSeqs(n - 1)
         IN  shorter \cup {Append(s, t) : s \in {q \in shorter : Len(q) = n - 1},
                                          t \in SiblingTrees}

SiblingDocs == {Document(ts) : ts \in SiblingSeqs(MaxSibs)}

ParseInit ==
    /\ html \in GeneralDocs \cup HeadingDocs \cup SiblingDocs
    /\ parsed = <<>>
    /\ TextIdle /\ MainIdle /\ ExtractIdle

\* parsed = _parse_sections(html)
ParsePage ==
    /\ parsed = <<>>
    /\ parsed' = <<ParseSections(html)>>
    /\ UNCHANGED <<html, textVars, mainVars, extractVars>>

ParseNext == ParsePage

SpecParse == ParseInit /\ [][ParseNext]_vars

\* The pages of a run: page i has the slug Slug(i).
Slug(i) == "page-" \o ToString(i)

(***************************************************************************)
(* parse_structure.py: main.                                               *)
(***************************************************************************)
\* the path of the raw HTML file of the i-th manifest entry
HtmlFile(i) == "raw_html/" \o Slug(i) \o ".html"

\* the manifest of n entries
Manifest(n) ==
    [i \in 1..n |-> [url |-> "https://researchdosing.com/" \o Slug(i), slug |-> Slug(i),
                     sha256 |-> "sha-" \o ToString(i), html_file |-> HtmlFile(i)]]

\* What a raw HTML file may hold: <<>> stands for a file that is missing or
\* cannot be read, <<doc>> for a file that parses to doc.
FileContents ==
    { <<>>,
      << Document(<< HeadingTree("h2", "Dosing"),
                     << El("p", 0), Tx("Take 2 mg daily", 1) >> >>) >>,
      << Document(<< << Tx("loose text", 0) >> >>) >> }

MainInit ==
    /\ \E n \in 0..MaxItems :
           /\ manifest = Manifest(n)
           /\ raw_files \in [{HtmlFile(i) : i \in 1..n} -> FileContents]
    /\ item_idx = 0
    /\ out_dir = <<>>
    /\ written = 0
    /\ run_state = "running"
    /\ TextIdle /\ ParseIdle /\ ExtractIdle

\* one iteration of "for item in manifest" whose file can be read: the page is
\* parsed and written to <out_dir>/<slug>.json
ParseItem ==
    /\ run_state = "running"
    /\ item_idx < Len(manifest)
    /\ LET item == manifest[item_idx + 1]
           file == raw_files[item.html_file]
       IN  /\ file # <<>>
           /\ out_dir' = (item.slug :> (ParseSections(file[1]) @@
                                        [url |-> item.url, slug |-> item.slug,
                                         sha256 |-> item.sha256]))
                         @@ out_dir
    /\ written' = written + 1
    /\ item_idx' = item_idx + 1
    /\ UNCHANGED <<raw_files, manifest, run_state, textVars, parseVars, extractVars>>

\* the iteration whose file cannot be read: html_path.read_text raises, nothing
\* in main catches it, and the exception ends the process
ReadRaises ==
    /\ run_state = "running"
    /\ item_idx < Len(manifest)
    /\ raw_files[manifest[item_idx + 1].html_file] = <<>>
    /\ run_state' = "raised"
    /\ UNCHANGED <<raw_files, manifest, item_idx, out_dir, written>>
    /\ UNCHANGED <<textVars, parseVars, extractVars>>

\* after the loop: "OK parse_structure: wrote=..." and return 0
MainReturns ==
    /\ run_state = "running"
    /\ item_idx = Len(manifest)
    /\ run_state' = "returned"
    /\ UNCHANGED <<raw_files, manifest, item_idx, out_dir, written>>
    /\ UNCHANGED <<textVars, parseVars, extractVars>>

MainNext == ParseItem \/ ReadRaises \/ MainReturns

SpecMain == MainInit /\ [][MainNext]_vars

(***************************************************************************)
(* extract_claims.py: RE_NUM_UNIT, RE_DURATION and _extract_numbers.       *)
(***************************************************************************)
\* \w on the characters the model's texts use
WordChars ==
    {Chr(UpperCase \o LowerCase \o Digits \o "_", k) : k \in 1..(26 + 26 + 10 + 1)}
IsWordChar(c) == c \in WordChars

\* the length of the run of digits (of whitespace) that starts at s[i]
RECURSIVE DigitRun(_, _), SpaceRun(_, _)
DigitRun(s, i) == IF i <= Len(s) /\ IsDigit(Chr(s, i)) THEN 1 + DigitRun(s, i + 1) ELSE 0
SpaceRun(s, i) == IF i <= Len(s) /\ IsSpace(Chr(s, i)) THEN 1 + SpaceRun(s, i + 1) ELSE 0

\* the alternatives of the unit groups in the order the regex engine tries
\* them ("units?" is greedy: units before unit; mL equals ml under IGNORECASE)
NumUnitAlts  == <<"mcg", "ug", "mg", "g", "iu", "units", "unit", "ml", "ml">>
DurationAlts == <<"day", "days", "week", "weeks", "month", "months">>

\* unit alternative u matches at s[j] without regard to case, and \b holds
\* after it
UnitMatches(s, j, u) ==
    /\ j + Len(u) - 1 <= Len(s)
    /\ Lower(SubSeq(s, j, j + Len(u) - 1)) = u
    /\ (j + Len(u) > Len(s) \/ ~IsWordChar(Chr(s, j + Len(u))))

\* The ways the pattern \d+(\.\d+)?\s*(unit)\b matches at s[i]: k digits, a
\* fraction of e digits (0: no fraction), w whitespace characters, unit
\* alternative a.  withFrac tells the two patterns apart.
RegexPaths(s, i, alts, withFrac) ==
    UNION {UNION {
        LET j1 == i + k
            j2 == IF e = 0 THEN j1 ELSE j1 + 1 + e
        IN  UNION {{[k |-> k, e |-> e, w |-> w, a |-> a] :
                       a \in {x \in 1..Len(alts) : UnitMatches(s, j2 + w, alts[x])}} :
                   w \in 0..SpaceRun(s, j2)} :
        e \in 0..(IF withFrac /\ i + k <= Len(s) /\ Chr(s, i + k) = "."
                  THEN DigitRun(s, i + k + 1) ELSE 0)} :
        k \in 1..DigitRun(s, i)}

\* the path a backtracking engine finds first: the quantifiers are greedy
\* (more digits, a longer fraction, more whitespace first) and the
\* alternatives are tried left to right
FirstPath(paths) ==
    CHOOSE m \in paths : \A o \in paths :
        \/ m.k > o.k
        \/ m.k = o.k /\ m.e > o.e
        \/ m.k = o.k /\ m.e = o.e /\ m.w > o.w
        \/ m.k = o.k /\ m.e = o.e /\ m.w = o.w /\ m.a <= o.a

\* int(digits)
RECURSIVE ParseInt(_)
ParseInt(ds) ==
    IF Len(ds) = 0 THEN 0
    ELSE 10 * ParseInt(SubSeq(ds, 1, Len(ds) - 1)) + DigitValue(Chr(ds, Len(ds)))

RECURSIVE StripZeros(_)
StripZeros(ds) ==
    IF Len(ds) > 0 /\ Chr(ds, Len(ds)) = "0" THEN StripZeros(SubSeq(ds, 1, Len(ds) - 1))
    ELSE ds

\* float(num) as json.dumps writes it, for a num of a few digits: 250 -> 250.0
FloatOf(whole, frac) ==
    ToString(ParseInt(whole)) \o "."
    \o (IF StripZeros(frac) = "" THEN "0" ELSE StripZeros(frac))

\* a plausible slip: the unit is kept as it was written
MatchGroupsKeepCase(s, j, alts, m) ==
    LET j1 == j + m.k
        j2 == IF m.e = 0 THEN j1 ELSE j1 + 1 + m.e
        u  == j2 + m.w
    IN  [whole |-> SubSeq(s, j, j1 - 1),
         frac  |-> IF m.e = 0 THEN "" ELSE SubSeq(s, j1 + 1, j2 - 1),
         unit  |-> SubSeq(s, u, u + Len(alts[m.a]) - 1),
         end   |-> u + Len(alts[m.a])]

\* the groups of the match that starts at s[j] along path m, and where it ends
MatchGroups(s, j, alts, m) ==
    LET j1 == j + m.k
        j2 == IF m.e = 0 THEN j1 ELSE j1 + 1 + m.e
        u  == j2 + m.w
    IN  [whole |-> SubSeq(s, j, j1 - 1),
         frac  |-> IF m.e = 0 THEN "" ELSE SubSeq(s, j1 + 1, j2 - 1),
         unit  |-> Lower(SubSeq(s, u, u + Len(alts[m.a]) - 1)),
         end   |-> u + Len(alts[m.a])]

\* the leftmost position from i on where the pattern matches, 0 if none
FirstStart(s, i, alts, withFrac) ==
    LET starts == {j \in i..Len(s) : /\ IsDigit(Chr(s, j))
                                     /\ RegexPaths(s, j, alts, withFrac) # {}}
    IN  IF starts = {} THEN 0 ELSE CHOOSE x \in starts : \A y \in starts : x <= y

\* pattern.finditer(s) from position i on: the leftmost match, then the
\* matches after its end
RECURSIVE FindIter(_, _, _, _)
FindIter(s, i, alts, withFrac) ==
    CHOOSE r \in
        {IF j = 0 THEN <<>>
         ELSE CHOOSE q \in
                {<<g>> \o FindIter(s, g.end, alts, withFrac) :
                    g \in {MatchGroups(s, j, alts,
                                       FirstPath(RegexPaths(s, j, alts, withFrac)))}} : TRUE :
         j \in {FirstStart(s, i, alts, withFrac)}} : TRUE

\* nums / durs of _extract_numbers
NumberList(ns) ==
    [k \in 1..Len(ns) |-> [value |-> FloatOf(ns[k].whole, ns[k].frac), unit |-> ns[k].unit]]
DurationList(ds) ==
    [k \in 1..Len(ds) |-> [value |-> ParseInt(ds[k].whole), unit |-> ds[k].unit]]

\* the two lists of one text
NumbersOf(s) ==
    [numbers   |-> NumberList(FindIter(s, 1, NumUnitAlts, TRUE)),
     durations |-> DurationList(FindIter(s, 1, DurationAlts, FALSE))]

\* _extract_numbers(text); the argument is evaluated once, as in a call
ExtractNumbers(t) == CHOOSE r \in {NumbersOf(s) : s \in {t}} : TRUE

\* texts with measurements and durations, written with and without a space,
\* in upper case, inside longer numbers and inside longer words
NumberFragments ==
    {"250 mcg", "2mg", "1.50 mL", "12 grams", "3 Units", "10 Days", "1.5", " ", "x"}

RECURSIVE NumberFragSeqs(_)
NumberFragSeqs(n) ==
    IF n = 0 THEN {<<>>}
    ELSE LET shorter == NumberFragSeqs(n - 1)
         IN  shorter \cup {Append(s, f) : s \in {q \in shorter : Len(q) = n - 1},
                                          f \in NumberFragments}

\* the texts made of fragments, and the sentence of the documentation
NumberTexts ==
    {Join("", s) : s \in NumberFragSeqs(MaxNumFrags)}
    \cup {"Take 250 mcg twice daily for 4 weeks"}

NumbersInit ==
    /\ text \in NumberTexts
    /\ claim_type = None
    /\ flags = <<>>
    /\ extracted = <<>>
    /\ ParseIdle /\ MainIdle /\ ExtractIdle

\* _extract_numbers(text)
DoExtractNumbers ==
    /\ extracted = <<>>
    /\ extracted' = <<ExtractNumbers(text)>>
    /\ UNCHANGED <<text, claim_type, flags, parseVars, mainVars, extractVars>>

NumbersNext == DoExtractNumbers

SpecNumbers == NumbersInit /\ [][NumbersNext]_vars

(***************************************************************************)
(* extract_claims.py: _iter_text_units, _emit_claims_for_page and main.    *)
(***************************************************************************)
\* block.get(key, default)
Get(block, key, default) == IF key \in DOMAIN block THEN block[key] ELSE default

\* _iter_text_units(block): the texts the block yields, in order
IterTextUnits(block) ==
    LET t == Get(block, "type", None)
    IN  IF t = "paragraph" THEN <<Get(block, "text", "")>>
        ELSE IF t = "raw_text" THEN <<Get(block, "text", "")>>
        ELSE IF t = "list" THEN Get(block, "items", <<>>)
        ELSE IF t = "table"
             THEN LET rows == Get(block, "rows", <<>>)
                  IN  [i \in 1..Len(rows) |-> Join(" | ", rows[i])]
        ELSE <<>>

\* the (section path, text unit) pairs in the order the three nested loops of
\* _emit_claims_for_page visit them
RECURSIVE UnitsOfBlocks(_, _, _), UnitsOfSections(_, _)
UnitsOfBlocks(path, blocks, i) ==
    IF i > Len(blocks) THEN <<>>
    ELSE LET us == IterTextUnits(blocks[i])
         IN  [k \in 1..Len(us) |-> [path |-> path, text |-> us[k]]]
             \o UnitsOfBlocks(path, blocks, i + 1)
UnitsOfSections(secs, i) ==
    IF i > Len(secs) THEN <<>>
    ELSE UnitsOfBlocks(Get(secs[i], "path", <<>>), Get(secs[i], "blocks", <<>>), 1)
         \o UnitsOfSections(secs, i + 1)

\* a plausible slip: the sequence number is advanced before the empty text is
\* skipped
EmitStepCountsEmpty(acc, page, unit) ==
    LET t  == Strip(unit.text)
        id == acc.claim_id + 1
    IN  IF t = "" THEN [acc EXCEPT !.claim_id = id]
        ELSE [claims |-> Append(acc.claims,
                  [id |-> page.slug \o ":" \o ToString(id),
                   source |-> [site |-> "researchdosing.com", url |-> page.url,
                               slug |-> page.slug, sha256 |-> Get(page, "sha256", ""),
                               extracted_from |-> "html_snapshot"],
                   page_title |-> Get(page, "h1", ""),
                   section_path |-> unit.path,
                   claim_type |-> ClassifyLine(t),
                   text |-> t,
                   observed_not_guidance |-> TRUE,
                   flags |-> Flags(t)] @@ ExtractNumbers(t)),
              claim_id |-> id]

\* the body of the innermost loop of _emit_claims_for_page, on the
\* accumulator (claims, claim_id)
EmitStep(acc, page, unit) ==
    LET t == Strip(unit.text)
    IN  IF t = "" THEN acc
        ELSE LET id == acc.claim_id + 1
             IN  [claims |-> Append(acc.claims,
                      [id |-> page.slug \o ":" \o ToString(id),
                       source |-> [site |-> "researchdosing.com", url |-> page.url,
                                   slug |-> page.slug, sha256 |-> Get(page, "sha256", ""),
                                   extracted_from |-> "html_snapshot"],
                       page_title |-> Get(page, "h1", ""),
                       section_path |-> unit.path,
                       claim_type |-> ClassifyLine(t),
                       text |-> t,
                       observed_not_guidance |-> TRUE,
                       flags |-> Flags(t)] @@ ExtractNumbers(t)),
                  claim_id |-> id]

\* the loop over the units; the loop's state after a unit is a value
RECURSIVE EmitUnits(_, _, _, _)
EmitUnits(acc, page, units, i) ==
    IF i > Len(units) THEN acc
    ELSE CHOOSE r \in {EmitUnits(next, page, units, i + 1) :
                          next \in {EmitStep(acc, page, units[i])}} : TRUE

\* _emit_claims_for_page(page)
EmitClaimsForPage(page) ==
    CHOOSE r \in {EmitUnits([claims |-> <<>>, claim_id |-> 0], p, units, 1).claims :
                     p \in {page},
                     units \in {UnitsOfSections(Get(page, "sections", <<>>), 1)}} : TRUE

\* A dict, in insertion order: a sequence of <<key, value>> pairs.
DictKeys(d) == {d[i][1] : i \in 1..Len(d)}
DictGet(d, k, default) ==
    IF k \in DictKeys(d) THEN d[CHOOSE i \in 1..Len(d) : d[i][1] = k][2] ELSE default
\* d[k] = d.get(k, 0) + 1
DictInc(d, k) ==
    IF k \in DictKeys(d)
    THEN [i \in 1..Len(d) |-> IF d[i][1] = k THEN <<k, d[i][2] + 1>> ELSE d[i]]
    ELSE Append(d, <<k, 1>>)

RECURSIVE DictIncAll(_, _, _)
DictIncAll(d, keys, i) ==
    IF i > Len(keys) THEN d ELSE DictIncAll(DictInc(d, keys[i]), keys, i + 1)

\* the counters after the claims cs[i..] of one page were written
RECURSIVE CountClaims(_, _, _)
CountClaims(c, cs, i) ==
    IF i > Len(cs) THEN c
    ELSE CountClaims(
             [total   |-> c.total + 1,
              by_type |-> DictInc(c.by_type, cs[i].claim_type),
              by_flag |-> DictIncAll(c.by_flag, Get(cs[i], "flags", <<>>), 1),
              by_slug |-> DictInc(c.by_slug, cs[i].source.slug)],
             cs, i + 1)

\* key=lambda kv: (-kv[1], kv[0])
ByCountThenName == "(-kv[1], kv[0])"
\* key=lambda kv: -kv[1]
ByCount == "-kv[1]"

\* key(a) < key(b) for the two sort keys of main
KeyLess(key, a, b) ==
    IF key = ByCountThenName
    THEN a[2] > b[2] \/ (a[2] = b[2] /\ StrLess(a[1], b[1]))
    ELSE a[2] > b[2]

\* sorted(items, key=key): a stable insertion sort
RECURSIVE InsertSorted(_, _, _), SortedBy(_, _)
InsertSorted(s, x, key) ==
    IF Len(s) = 0 THEN <<x>>
    ELSE IF KeyLess(key, x, s[Len(s)])
         THEN Append(InsertSorted(SubSeq(s, 1, Len(s) - 1), x, key), s[Len(s)])
         ELSE Append(s, x)
\* a plausible slip: the counts are written in the order the dict holds them
SortedByInsertion(s, key) == s
SortedBy(s, key) ==
    IF Len(s) = 0 THEN <<>>
    ELSE InsertSorted(SortedBy(SubSeq(s, 1, Len(s) - 1), key), s[Len(s)], key)

TopSlugs == 10

\* the sections of parsed pages: a page whose text sits under ROOT, a page
\* with a table and a nested section, and a page with one short paragraph
RootBody ==
    << [path |-> <<"ROOT">>,
        blocks |-> << [type |-> "paragraph", text |-> "WARNING dose"],
                      [type |-> "paragraph", text |-> " "],
                      [type |-> "list", ordered |-> FALSE,
                       items |-> <<"", "Take 250 mcg twice Daily for 4 weeks">>] >>] >>
TableBody ==
    << [path |-> <<"Dosing">>,
        blocks |-> << [type |-> "table", rows |-> << <<"x", "1.50 mL", "12 grams">>, <<>> >>] >>],
       [path |-> <<"Dosing", "Titration">>,
        blocks |-> << [type |-> "raw_text", text |-> "pregnant\nresearch use only"],
                      [type |-> "figure"] >>] >>
ShortBody ==
    << [path |-> <<"Cycle">>,
        blocks |-> << [type |-> "paragraph", text |-> "cycle"] >>] >>

PageBodies == {<<>>, RootBody, TableBody, ShortBody}

RECURSIVE BodySeqs(_)
BodySeqs(n) ==
    IF n = 0 THEN {<<>>}
    ELSE LET shorter == BodySeqs(n - 1)
         IN  shorter \cup {Append(s, b) : s \in {q \in shorter : Len(q) = n - 1},
                                          b \in PageBodies}

\* _load_parsed(run_date): the pages in the order of their file names
LoadParsed(bodies) ==
    [i \in 1..Len(bodies) |->
        [slug |-> Slug(i), url |-> "https://researchdosing.com/" \o Slug(i),
         sha256 |-> "sha-" \o ToString(i), h1 |-> "Title", title |-> "Title",
         sections |-> bodies[i]]]

\* runs over one page more than the summary lists: short pages, except for at
\* most one page with a table (position a) and one with text under ROOT
\* (position b); position 0 is no page
LongRun == TopSlugs + 1
LongRuns ==
    {[i \in 1..LongRun |-> IF i = ab[1] THEN TableBody
                           ELSE IF i = ab[2] THEN RootBody ELSE ShortBody] :
        ab \in {x \in (0..LongRun) \X (0..LongRun) : x[1] # x[2] \/ x[1] = 0}}

ExtractInit ==
    /\ pages \in {LoadParsed(b) : b \in BodySeqs(MaxPages) \cup LongRuns}
    /\ page_idx = 0
    /\ out_jsonl = <<>>
    /\ total = 0
    /\ by_type = <<>>
    /\ by_flag = <<>>
    /\ by_slug = <<>>
    /\ summary = <<>>
    /\ TextIdle /\ ParseIdle /\ MainIdle

\* one iteration of "for page in pages" in main
EmitPage ==
    /\ summary = <<>>
    /\ page_idx < Len(pages)
    /\ LET cs == EmitClaimsForPage(pages[page_idx + 1])
           c  == CountClaims([total |-> total, by_type |-> by_type,
                              by_flag |-> by_flag, by_slug |-> by_slug], cs, 1)
       IN  /\ out_jsonl' = out_jsonl \o cs
           /\ total' = c.total
           /\ by_type' = c.by_type
           /\ by_flag' = c.by_flag
           /\ by_slug' = c.by_slug
    /\ page_idx' = page_idx + 1
    /\ UNCHANGED <<pages, summary, textVars, parseVars, mainVars>>

\* the summary written after the loop
WriteSummary ==
    /\ summary = <<>>
    /\ page_idx = Len(pages)
    /\ summary' = <<
           [claims_total |-> total,
            claims_by_type |-> SortedBy(by_type, ByCountThenName),
            flags_counts |-> SortedBy(by_flag, ByCountThenName),
            claims_by_slug_top10 |->
                LET s == SortedBy(by_slug, ByCount)
                IN  SubSeq(s, 1, IF Len(s) < TopSlugs THEN Len(s) ELSE TopSlugs)] >>
    /\ UNCHANGED <<pages, page_idx, out_jsonl, total, by_type, by_flag, by_slug>>
    /\ UNCHANGED <<textVars, parseVars, mainVars>>

ExtractNext == EmitPage \/ WriteSummary

SpecExtract == ExtractInit /\ [][ExtractNext]_vars

(***************************************************************************)
(* Claims about _parse_sections (checked under SpecParse).                 *)
(***************************************************************************)
\* the document as BeautifulSoup built it, before any node is moved
Doc_nodes == html.nodes
Doc_kids  == InitHeap(html.nodes, 0).kids
Doc_text(x) == Clean(GetText(Doc_nodes, Doc_kids, x, " "))

\* the level of a heading tag h1..h4
Claim_Level(x) == CHOOSE l \in 1..4 : Doc_nodes[x].name = "h" \o ToString(l)

\* the retained headings of the claims: the h1..h4 of the container, in
\* document order, whose text is neither empty nor the brand string
Claim_Retained ==
    SelectSeq(DescOf(Doc_kids, 0),
              LAMBDA x : /\ Doc_nodes[x].name \in {"h1", "h2", "h3", "h4"}
                         /\ Doc_text(x) # ""
                         /\ Lower(Doc_text(x)) # "research dosing")

Claim_Sections == parsed[1].sections

Claim_Max(S) == CHOOSE m \in S : \A y \in S : y <= m
Claim_Min(S) == CHOOSE m \in S : \A y \in S : m <= y

\* C1: with retained headings, section i belongs to heading i; its path has
\* length 1 exactly when no earlier heading has a strictly smaller level, and
\* otherwise its path without the last element is the path of the nearest
\* earlier section whose heading has a strictly smaller level.
C1_PathExtendsNearestLowerLevel ==
    (parsed # <<>> /\ Len(Claim_Retained) > 0) =>
        LET hs   == Claim_Retained
            secs == Claim_Sections
        IN  /\ Len(secs) = Len(hs)
            /\ \A i \in 1..Len(secs) :
                   LET lower == {j \in 1..(i - 1) : Claim_Level(hs[j]) < Claim_Level(hs[i])}
                       path  == secs[i].path
                   IN  /\ (Len(path) = 1) <=> (lower = {})
                       /\ Len(path) > 1 =>
                              /\ lower # {}
                              /\ SubSeq(path, 1, Len(path) - 1) = secs[Claim_Max(lower)].path

\* a fifth heading of level 3 under a second level-2 heading: both deeper
\* headings before it were closed
C1_Witness ==
    /\ parsed # <<>>
    /\ Len(Claim_Sections) = 5
    /\ Claim_Sections[3].path = <<"S1", "S2", "S3">>
    /\ Claim_Sections[5].path = <<"S1", "S4", "S5">>

\* the last node of the subtree of x, in document order
Claim_SubtreeEnd(x) ==
    LET d == DescOf(Doc_kids, x) IN IF Len(d) = 0 THEN x ELSE Claim_Max(SeqRange(d))

\* the nodes after heading i and before the next retained heading of the same
\* or a smaller level, or the end of the document
Claim_Between(i) ==
    LET hs    == Claim_Retained
        later == {j \in (i + 1)..Len(hs) : Claim_Level(hs[j]) <= Claim_Level(hs[i])}
        stop  == IF later = {} THEN Len(Doc_nodes) + 1 ELSE hs[Claim_Min(later)]
    IN  {x \in 1..Len(Doc_nodes) : Claim_SubtreeEnd(hs[i]) < x /\ x < stop}

\* C2: the region handed to block extraction for section i holds exactly the
\* nodes after heading i and before the next retained heading of the same or
\* a smaller level (or the end of the document).
C2_RegionIsExactlyBetweenHeadings ==
    (parsed # <<>> /\ Len(Claim_Retained) > 0) =>
        \A i \in 1..Len(Claim_Retained) :
            SeqRange(ParseTrace(html).regions[i]) = Claim_Between(i)

\* C3: without a retained heading there is exactly the section ["ROOT"] with
\* the blocks of the whole container; with retained headings there is one
\* section per retained heading, in document order, each path ending in its
\* heading's text.
C3_RootFallbackOrOneSectionPerHeading ==
    parsed # <<>> =>
        LET hs   == Claim_Retained
            secs == Claim_Sections
        IN  IF Len(hs) = 0
            THEN secs = << [path |-> <<"ROOT">>,
                            blocks |-> ExtractBlocks(Doc_nodes, Doc_kids, 0)] >>
            ELSE /\ Len(secs) = Len(hs)
                 /\ \A i \in 1..Len(hs) :
                        secs[i].path[Len(secs[i].path)] = Doc_text(hs[i])

\* a container whose only heading is the brand heading was parsed into the
\* ROOT section, with blocks
C3_Witness ==
    /\ parsed # <<>>
    /\ \E x \in 1..Len(Doc_nodes) : Doc_nodes[x].name = "h1"
    /\ Len(Claim_Retained) = 0
    /\ Len(Claim_Sections) = 1
    /\ Claim_Sections[1].path = <<"ROOT">>
    /\ Len(Claim_Sections[1].blocks) > 0

\* the nodes between section i's heading and its boundary; the whole container
\* for the ROOT section
Claim_Content(i) ==
    IF Len(Claim_Retained) = 0 THEN 1..Len(Doc_nodes) ELSE Claim_Between(i)

\* C5: a section has no blocks only if no text exists between its heading and
\* its boundary.
C5_EmptyBlocksOnlyIfNoContent ==
    parsed # <<>> =>
        \A i \in 1..Len(Claim_Sections) :
            Claim_Sections[i].blocks = <<>> =>
                \A x \in Claim_Content(i) :
                    ~IsTag(Doc_nodes, x) => Strip(Doc_nodes[x].text) = ""

\* the list block of list node u built from its direct items only
Claim_DirectItems(u) ==
    LET lis  == SelectSeq(Doc_kids[u], LAMBDA c : Doc_nodes[c].name = "li")
        txts == [k \in 1..Len(lis) |-> Doc_text(lis[k])]
    IN  SelectSeq(txts, LAMBDA t : t # "")

\* C6: the list blocks of a section are, in order, one block per list node of
\* its region with a non-empty direct item, holding the texts of that list's
\* direct items only.
C6_ListBlocksHoldDirectItemsOnly ==
    parsed # <<>> =>
        \A i \in 1..Len(Claim_Sections) :
            LET lists == SelectSeq(ParseTrace(html).regions[i],
                             LAMBDA x : /\ Doc_nodes[x].name \in {"ul", "ol"}
                                        /\ Len(Claim_DirectItems(x)) > 0)
            IN  SelectSeq(Claim_Sections[i].blocks, LAMBDA b : b.type = "list")
                = [k \in 1..Len(lists) |->
                      [type |-> "list", ordered |-> Doc_nodes[lists[k]].name = "ol",
                       items |-> Claim_DirectItems(lists[k])]]

\* a block with at least one text unit and no empty one
Claim_BlockHasText(b) ==
    IF b.type \in {"paragraph", "raw_text"} THEN Strip(b.text) # ""
    ELSE IF b.type = "list"
         THEN Len(b.items) > 0 /\ \A k \in 1..Len(b.items) : Strip(b.items[k]) # ""
    ELSE IF b.type = "table"
         THEN /\ Len(b.rows) > 0
              /\ \A r \in 1..Len(b.rows) :
                     /\ Len(b.rows[r]) > 0
                     /\ \A c \in 1..Len(b.rows[r]) : Strip(b.rows[r][c]) # ""
    ELSE FALSE

\* C7: every block of every section, the ROOT section included, is a
\* paragraph or raw_text with text, a list with items none of which is empty,
\* or a table with rows none of which is empty or holds a blank cell.
C7_EveryBlockHasText ==
    parsed # <<>> =>
        \A i \in 1..Len(Claim_Sections) :
            \A k \in 1..Len(Claim_Sections[i].blocks) :
                Claim_BlockHasText(Claim_Sections[i].blocks[k])

\* the ROOT section of a container with an empty paragraph, a list with an
\* empty item and a table with a blank cell and an empty row
C7_Witness ==
    /\ parsed # <<>>
    /\ Claim_Sections[1].path = <<"ROOT">>
    /\ \E x \in 1..Len(Doc_nodes) : Doc_nodes[x].name = "p" /\ Doc_text(x) = ""
    /\ \E k \in 1..Len(Claim_Sections[1].blocks) :
           Claim_Sections[1].blocks[k] = [type |-> "table", rows |-> << <<"c">> >>]
    /\ \E k \in 1..Len(Claim_Sections[1].blocks) :
           /\ Claim_Sections[1].blocks[k].type = "list"
           /\ Claim_Sections[1].blocks[k].items = <<"b">>

(***************************************************************************)
(* Claims about the parse run (checked under SpecMain).                    *)
(***************************************************************************)
\* C9: when the run has ended, every manifest entry whose file can be read has
\* its parsed document written, whatever entries before it could not be read.
C9_ReadablePagesAreWritten ==
    run_state # "running" =>
        \A i \in 1..Len(manifest) :
            raw_files[manifest[i].html_file] # <<>> => manifest[i].slug \in DOMAIN out_dir

(***************************************************************************)
(* Claims about the text functions (checked under SpecText).               *)
(***************************************************************************)

\* The rule table of C8: rule number -> claim type and keywords.
C8_Rules ==
    << [type |-> "contraindication",
        kw |-> {"contraindication", "do not take if", "do not use if"}],
       [type |-> "warning",
        kw |-> {"warning", "important:", "mistake", "risk", "danger"}],
       [type |-> "reconstitution",
        kw |-> {"reconstitution", "mix with", "bac water", "bacteriostatic",
                "dilution", "reconstitute"}],
       [type |-> "storage",
        kw |-> {"storage", "refriger", "room temperature", "freeze", "shelf life"}],
       [type |-> "side_effect",
        kw |-> {"side effects", "adverse", "nausea", "headache", "fatigue", "insomnia"}],
       [type |-> "cycle_observed", kw |-> {"cycle", "washout"}],
       [type |-> "schedule_observed",
        kw |-> {"daily", "weekly", "1x/day", "2x/day", "every", "per week"}],
       [type |-> "dosing_observed", kw |-> {"dose", "units", "mcg", "mg", "iu", "ml"}],
       [type |-> "titration_observed",
        kw |-> {"increase dose", "titrate", "intervals", "maximum dose"}],
       [type |-> "stacking_observed", kw |-> {"stacking", "suggested pairings", "pairings"}],
       [type |-> "mechanism",
        kw |-> {"mechanism", "pathway", "receptor", "binds", "agonist", "antagonist"}],
       [type |-> "benefit",
        kw |-> {"benefit", "helps", "improves", "useful in", "promotes", "supports"}] >>

\* the rules with a keyword in the lower-cased text lt
C8_Matching(lt) == {r \in 1..12 : AnyIn(lt, C8_Rules[r].kw)}

C8_Expected(t, lt) ==
    LET m == C8_Matching(lt)
    IN  IF m # {} THEN C8_Rules[CHOOSE r \in m : \A q \in m : r <= q].type
        ELSE IF Len(t) >= 140 THEN "overview"
        ELSE "other"

\* C8: the type _classify_line returns is the type of the lowest-numbered rule
\* with a keyword occurring case-insensitively in the text; with no such rule it
\* is overview for a text of at least 140 characters and other for a shorter
\* one; it is one of the 14 claim types; a text with a warning trigger and a
\* dose trigger (and no contraindication trigger before them) is a warning.
C8_FirstMatchingRuleWins ==
    claim_type # None =>
        LET lt == Lower(text)
        IN  /\ claim_type = C8_Expected(text, lt)
            /\ claim_type \in CLAIM_TYPES
            /\ Cardinality(CLAIM_TYPES) = 14
            /\ (  /\ AnyIn(lt, C8_Rules[2].kw)
                  /\ AnyIn(lt, C8_Rules[8].kw)
                  /\ ~AnyIn(lt, C8_Rules[1].kw)
                => claim_type = "warning")

\* a text written with capitals that holds a warning and a dose trigger was
\* classified as a warning
C8_Witness ==
    /\ claim_type = "warning"
    /\ text # Lower(text)
    /\ Contains(Lower(text), "warning")
    /\ Contains(Lower(text), "dose")

\* The triggers of C10: flag name -> trigger substrings.
C10_Triggers ==
    [pregnancy_or_breastfeeding |-> {"pregnant", "breastfeeding"},
     cancer |-> {"cancer"},
     disclaimer_present |-> {"not a drug", "not for human consumption",
                             "research-use only", "research use only",
                             "not medical advice"},
     injection_or_reconstitution_reference |->
         {"prep & injection guide", "injection guide", "reconstitution", "bac water",
          "bacteriostatic"},
     titration_language |-> {"increase dose", "titrate", "intervals", "as necessary",
                             "maximum dose"},
     stacking_language |-> {"stack", "stacking", "pairings", "suggested pairings"}]

C10_FlagNames == DOMAIN C10_Triggers

\* C10: the list _flags returns is strictly ascending in lexicographic order
\* (so it has no duplicates), holds only flag names, holds a flag exactly when
\* one of the flag's triggers occurs case-insensitively in the text, and is
\* [disclaimer_present, pregnancy_or_breastfeeding] for a text whose only
\* triggers are "pregnant" and "research use only".
C10_FlagsSortedAndExact ==
    flags # <<>> =>
        LET lt  == Lower(text)
            res == flags[1]
        IN  /\ Cardinality(C10_FlagNames) = 6
            /\ \A i \in 1..Len(res) : res[i] \in C10_FlagNames
            /\ \A i \in 1..(Len(res) - 1) : StrLess(res[i], res[i + 1])
            /\ \A f \in C10_FlagNames :
                   (f \in SeqRange(res)) <=> AnyIn(lt, C10_Triggers[f])
            /\ (  /\ Contains(lt, "pregnant")
                  /\ Contains(lt, "research use only")
                  /\ \A f \in C10_FlagNames
                            \ {"pregnancy_or_breastfeeding", "disclaimer_present"} :
                         ~AnyIn(lt, C10_Triggers[f])
                => res = <<"disclaimer_present", "pregnancy_or_breastfeeding">>)

\* the flags of a text holding "pregnant" before "research use only"
C10_Witness ==
    /\ text = "pregnant research use only"
    /\ flags = << <<"disclaimer_present", "pregnancy_or_breastfeeding">> >>

(***************************************************************************)
(* Claims about claim emission (checked under SpecExtract).                *)
(***************************************************************************)
\* the claims written for the page with this slug, in the order written
C4_ClaimsOf(slug) == SelectSeq(out_jsonl, LAMBDA c : c.source.slug = slug)

\* the text units of a page that are not empty once stripped
C4_NonEmptyUnits(page) ==
    SelectSeq(UnitsOfSections(page.sections, 1), LAMBDA u : Strip(u.text) # "")

\* C4: the claims of every processed page carry the ids slug:1, slug:2, ...,
\* slug:n in the order of emission, n being the number of the page's non-empty
\* text units, whatever was emitted for the pages before it.
C4_ClaimIdsSequential ==
    \A p \in 1..page_idx :
        LET cs == C4_ClaimsOf(pages[p].slug)
        IN  /\ Len(cs) = Len(C4_NonEmptyUnits(pages[p]))
            /\ \A k \in 1..Len(cs) : cs[k].id = pages[p].slug \o ":" \o ToString(k)

\* a second page has emitted claims after an empty unit was skipped, and an
\* earlier page emitted claims too
C4_Witness ==
    /\ page_idx >= 2
    /\ Len(C4_ClaimsOf(pages[1].slug)) >= 2
    /\ Len(C4_ClaimsOf(pages[2].slug)) >= 2
    /\ Len(C4_NonEmptyUnits(pages[2])) < Len(UnitsOfSections(pages[2].sections, 1))
    /\ C4_ClaimsOf(pages[2].slug)[1].id = "page-2:1"

\* C14: the stack left after each heading is pushed has strictly increasing
\* levels from bottom to top; every section path has between 1 and 4
\* elements, ends in its own heading's text and is no longer than the
\* heading's level; no path element is empty or the brand string.
C14_StackLevelsStrictlyIncrease ==
    (parsed # <<>> /\ Len(Claim_Retained) > 0) =>
        LET hs     == Claim_Retained
            stacks == ParseTrace(html).stacks
            secs   == parsed[1].sections
        IN  /\ Len(stacks) = Len(hs)
            /\ \A k \in 1..Len(stacks) :
                   /\ \A i \in 1..(Len(stacks[k]) - 1) : stacks[k][i][1] < stacks[k][i + 1][1]
                   /\ secs[k].path = [i \in 1..Len(stacks[k]) |-> stacks[k][i][2]]
            /\ \A k \in 1..Len(secs) :
                   LET path == secs[k].path
                   IN  /\ 1 <= Len(path) /\ Len(path) <= 4
                       /\ path[Len(path)] = Doc_text(hs[k])
                       /\ Len(path) <= Claim_Level(hs[k])
                       /\ \A i \in 1..Len(path) : path[i] # "" /\ Lower(path[i]) # BRAND

\* a heading of level 4 got a path of 3 elements, and the heading after it
\* closed two of them at once
C14_Witness ==
    /\ parsed # <<>>
    /\ \E k \in 1..(Len(Claim_Retained) - 1) :
           /\ Claim_Level(Claim_Retained[k]) = 4
           /\ Len(parsed[1].sections[k].path) = 3
           /\ Len(parsed[1].sections[k + 1].path) = 2

\* heading i is still open when heading k is reached: no retained heading
\* after i, up to k, has i's level or a smaller one
C15_Open(hs, i, k) ==
    i < k /\ \A j \in (i + 1)..k :
                Claim_Level(hs[j]) > Claim_Level(hs[i])

\* headings i and k are children of the same node
C15_Siblings(hs, i, k) ==
    Doc_nodes[hs[i]].parent = Doc_nodes[hs[k]].parent

\* no child of that node between the two is a heading, retained or not, of
\* i's level or a smaller one
C15_NoHeadingBetween(hs, i, k) ==
    \A x \in (hs[i] + 1)..(hs[k] - 1) :
        (/\ Doc_nodes[x].parent = Doc_nodes[hs[i]].parent
         /\ Doc_nodes[x].name \in HeadingNames)
        => HeadingLevel(Doc_nodes[x].name) > Claim_Level(hs[i])

\* the nodes heading k would capture in the document as it was parsed, before
\* any node was moved
C15_Untouched(hs, k) ==
    LET top == RegionNodes(Doc_nodes, InitHeap(Doc_nodes, 0), hs[k])
    IN  SeqRange(top) \cup UNION {SeqRange(DescOf(Doc_kids, n)) : n \in SeqRange(top)}

\* the claims extract_claims emits for the parsed page
C15_Claims ==
    EmitClaimsForPage(parsed[1] @@ [url |-> "https://researchdosing.com/page-1",
                                    slug |-> Slug(1), sha256 |-> "sha-1"])

\* the content after sub-heading k is also content of the open heading i: the
\* nodes handed to block extraction for k were handed to it for i, and every
\* text of k's blocks (all of them, or all but the raw_text fallback) is a
\* claim of section i and a claim of section k
C15_SharedWith(tr, claims, i, k, withRawText) ==
    LET secs == parsed[1].sections
        bs   == SelectSeq(secs[k].blocks, LAMBDA b : withRawText \/ b.type # "raw_text")
        us   == UnitsOfBlocks(secs[k].path, bs, 1)
    IN  /\ SeqRange(tr.regions[k]) \subseteq SeqRange(tr.regions[i])
        /\ \A b \in SeqRange(bs) : b \in SeqRange(secs[i].blocks)
        /\ \A u \in 1..Len(us) :
               Strip(us[u].text) # "" =>
                   \A path \in {secs[i].path, secs[k].path} :
                       \E c \in 1..Len(claims) :
                           /\ claims[c].text = Strip(us[u].text)
                           /\ claims[c].section_path = path

\* moving the nodes of earlier headings leaves the region of every heading
\* as it was in the parsed document
C15_RegionsUntouched(hs, tr) ==
    \A k \in 1..Len(hs) : SeqRange(tr.regions[k]) = C15_Untouched(hs, k)

C12_Qualifying(names) ==
    {x \in 1..Len(Doc_nodes) :
        /\ Doc_nodes[x].name \in names
        /\ Doc_text(x) # ""
        /\ Lower(Doc_text(x)) # BRAND}

\* "the first second- or third-level heading that qualifies": the first in
\* document order, or the first h2 before any h3
C12_FirstLower ==
    {Doc_text(Claim_Min(C12_Qualifying({"h2", "h3"})))}
    \cup (IF C12_Qualifying({"h2"}) # {}
          THEN {Doc_text(Claim_Min(C12_Qualifying({"h2"})))}
          ELSE {Doc_text(Claim_Min(C12_Qualifying({"h3"})))})

\* C12: the title is the longest qualifying h1 text, the first of the longest;
\* without a qualifying h1 it is the text of the first qualifying h2 or h3; it
\* is empty only when no h1, h2 or h3 qualifies.
C12_TitleIsBestHeading ==
    parsed # <<>> =>
        LET r   == parsed[1].h1
            h1s == C12_Qualifying({"h1"})
        IN  IF h1s # {}
            THEN \E x \in h1s :
                    /\ r = Doc_text(x)
                    /\ \A y \in h1s :
                           /\ Len(Doc_text(y)) <= Len(Doc_text(x))
                           /\ y < x => Len(Doc_text(y)) < Len(Doc_text(x))
            ELSE IF C12_Qualifying({"h2", "h3"}) # {}
                 THEN r \in C12_FirstLower
                 ELSE r = ""

(***************************************************************************)
(* Claims about the summary of extract_claims.main (checked under          *)
(* SpecExtract).                                                           *)
(***************************************************************************)
\* the number of written claim records that satisfy a test is counted over
\* out_jsonl itself
C11_TypeCount(ty) == Cardinality({k \in 1..Len(out_jsonl) : out_jsonl[k].claim_type = ty})
C11_FlagCount(fl) ==
    Cardinality({kf \in UNION {{k} \X (1..Len(out_jsonl[k].flags)) : k \in 1..Len(out_jsonl)} :
                    out_jsonl[kf[1]].flags[kf[2]] = fl})
C11_SlugCount(sl) == Cardinality({k \in 1..Len(out_jsonl) : out_jsonl[k].source.slug = sl})
C11_Slugs == {out_jsonl[k].source.slug : k \in 1..Len(out_jsonl)}

\* the entries of a listing are in descending count and, among equal counts,
\* in ascending name order
C11_ByCountThenName(list) ==
    \A i \in 1..Len(list) : \A j \in 1..Len(list) :
        i < j => \/ list[i][2] > list[j][2]
                 \/ list[i][2] = list[j][2] /\ StrLess(list[i][1], list[j][1])

\* C11: once the summary is written, claims_total is the number of claim
\* records written; claims_by_type and flags_counts hold the counts of the
\* written records by descending count, ties by ascending name; and
\* claims_by_slug_top10 holds at most 10 distinct slugs with their counts in
\* non-increasing order, no omitted slug having a strictly higher count than a
\* listed one.
C11_SummaryCountsAndOrder ==
    summary # <<>> =>
        LET r   == summary[1]
            top == r.claims_by_slug_top10
        IN  /\ r.claims_total = Len(out_jsonl)
            /\ C11_ByCountThenName(r.claims_by_type)
            /\ \A i \in 1..Len(r.claims_by_type) :
                   r.claims_by_type[i][2] = C11_TypeCount(r.claims_by_type[i][1])
            /\ {r.claims_by_type[i][1] : i \in 1..Len(r.claims_by_type)}
                   = {out_jsonl[k].claim_type : k \in 1..Len(out_jsonl)}
            /\ C11_ByCountThenName(r.flags_counts)
            /\ \A i \in 1..Len(r.flags_counts) :
                   /\ r.flags_counts[i][2] = C11_FlagCount(r.flags_counts[i][1])
                   /\ r.flags_counts[i][2] > 0
            /\ Len(top) <= 10
            /\ \A i \in 1..Len(top) : \A j \in 1..Len(top) :
                   i < j => top[i][2] >= top[j][2] /\ top[i][1] # top[j][1]
            /\ \A i \in 1..Len(top) :
                   top[i][1] \in C11_Slugs /\ top[i][2] = C11_SlugCount(top[i][1])
            /\ \A sl \in C11_Slugs \ {top[i][1] : i \in 1..Len(top)} :
                   /\ Len(top) = 10
                   /\ \A i \in 1..Len(top) : C11_SlugCount(sl) <= top[i][2]

\* a summary of a run in which more than 10 slugs have claims, the slug of the
\* eleventh page has more claims than another and is listed, a slug is left
\* out, and two claim types are tied
C11_Witness ==
    /\ summary # <<>>
    /\ Cardinality(C11_Slugs) > 10
    /\ C11_SlugCount(Slug(11)) > C11_SlugCount(Slug(1))
    /\ \E i \in 1..Len(summary[1].claims_by_slug_top10) :
           summary[1].claims_by_slug_top10[i][1] = Slug(11)
    /\ \E i \in 1..(Len(summary[1].claims_by_type) - 1) :
           summary[1].claims_by_type[i][2] = summary[1].claims_by_type[i + 1][2]

(***************************************************************************)
(* Claims about _extract_numbers (checked under SpecNumbers).              *)
(***************************************************************************)
C13_NumUnits == {"mcg", "ug", "mg", "g", "iu", "unit", "units", "ml"}
C13_DurUnits == {"day", "days", "week", "weeks", "month", "months"}

C13_AllDigits(s, i, j) == \A x \in i..j : x <= Len(s) /\ IsDigit(Chr(s, x))
C13_AllSpace(s, i, j) == \A x \in i..j : x <= Len(s) /\ IsSpace(Chr(s, x))

\* unit u, in any case, stands at s[p] and no letter, digit or underscore
\* follows it
C13_UnitAt(s, p, u) ==
    /\ p + Len(u) - 1 <= Len(s)
    /\ Lower(SubSeq(s, p, p + Len(u) - 1)) = u
    /\ (p + Len(u) <= Len(s) => ~IsWordChar(Chr(s, p + Len(u))))

\* Every way a stretch of s reads as a number and a unit: k digits from s[a],
\* a fraction of e digits when withFrac allows one, w >= minSpace whitespace
\* characters, and a unit u of the vocabulary; b is its last character.
C13_Matches(s, units, withFrac, minSpace) ==
    UNION {UNION {UNION {
        LET f == IF e = 0 THEN 0 ELSE 1 + e
        IN  {[a |-> ak[1], b |-> ak[1] + ak[2] + f + w + Len(u) - 1,
              whole |-> SubSeq(s, ak[1], ak[1] + ak[2] - 1),
              frac |-> IF e = 0 THEN "" ELSE SubSeq(s, ak[1] + ak[2] + 1, ak[1] + ak[2] + e),
              unit |-> u] :
                u \in {x \in units : C13_UnitAt(s, ak[1] + ak[2] + f + w, x)}} :
        w \in {x \in minSpace..Len(s) :
                  LET q == ak[1] + ak[2] + (IF e = 0 THEN 0 ELSE 1 + e)
                  IN  C13_AllSpace(s, q, q + x - 1)}} :
        e \in {x \in 0..(IF withFrac THEN Len(s) ELSE 0) :
                  x > 0 => /\ ak[1] + ak[2] <= Len(s)
                           /\ Chr(s, ak[1] + ak[2]) = "."
                           /\ C13_AllDigits(s, ak[1] + ak[2] + 1, ak[1] + ak[2] + x)}} :
        ak \in {x \in {d \in 1..Len(s) : IsDigit(Chr(s, d))} \X (1..Len(s)) :
                   C13_AllDigits(s, x[1], x[1] + x[2] - 1)}}

\* the non-overlapping matches a left-to-right scan takes: no two of them
\* overlap, and every match left out starts inside one that was taken
C13_Selected(M) ==
    CHOOSE S \in SUBSET M :
        /\ \A x \in S : \A y \in S : x # y => x.b < y.a \/ y.b < x.a
        /\ \A m \in M \ S : \E x \in S : x.a < m.a /\ m.a <= x.b

\* the matches of a set, from left to right
RECURSIVE C13_Ordered(_)
C13_Ordered(S) ==
    IF S = {} THEN <<>>
    ELSE LET m == CHOOSE x \in S : \A y \in S : x.a <= y.a
         IN  <<m>> \o C13_Ordered(S \ {m})

\* the result of _extract_numbers is exactly the selected matches, the
\* measurements needing at least minSpace whitespace characters before the unit
C13_ResultIsTheMatches(minSpace) ==
    extracted # <<>> =>
        LET r  == extracted[1]
            NM == C13_Matches(text, C13_NumUnits, TRUE, minSpace)
            DM == C13_Matches(text, C13_DurUnits, FALSE, 0)
            ns == C13_Ordered(C13_Selected(NM))
            ds == C13_Ordered(C13_Selected(DM))
        IN  /\ \A x \in NM \cup DM : \A y \in NM \cup DM : x.a = y.a => x = y
            /\ r.numbers = [i \in 1..Len(ns) |->
                               [value |-> FloatOf(ns[i].whole, ns[i].frac), unit |-> ns[i].unit]]
            /\ r.durations = [i \in 1..Len(ds) |->
                               [value |-> ParseInt(ds[i].whole), unit |-> ds[i].unit]]
            /\ \A i \in 1..Len(ns) : \A j \in 1..Len(ds) :
                   ns[i].b < ds[j].a \/ ds[j].b < ns[i].a
            /\ (NM = {} /\ DM = {}) => r = [numbers |-> <<>>, durations |-> <<>>]
            /\ text = "Take 250 mcg twice daily for 4 weeks" =>
                   r = [numbers |-> <<[value |-> "250.0", unit |-> "mcg"]>>,
                        durations |-> <<[value |-> 4, unit |-> "weeks"]>>]

\* C13 (as the code has it): numbers holds one {value, unit} entry per
\* non-overlapping match, from left to right, of a decimal number, any
\* whitespace or none, and a unit of the vocabulary written in any case and
\* ending at a word boundary, duplicates kept and the unit in lower case;
\* durations holds one entry per such match of an integer and day(s), week(s)
\* or month(s); no stretch of the text feeds both lists; a text without a
\* match gives two empty lists; "Take 250 mcg twice daily for 4 weeks" gives
\* numbers [{250.0, mcg}] and durations [{4, weeks}].
C13_NumbersAreTheMatches == C13_ResultIsTheMatches(0)

\* C13 (as stated): the same, a measurement being a number followed by
\* whitespace and then the unit.
C13_NumbersNeedWhitespace == C13_ResultIsTheMatches(1)

\* a text with "2mg" written without a space was scanned and the same
\* measurement was found twice
C13_Witness ==
    /\ extracted # <<>>
    /\ Contains(text, "2mg")
    /\ \E i \in 1..Len(extracted[1].numbers) : \E j \in 1..Len(extracted[1].numbers) :
           /\ i < j
           /\ extracted[1].numbers[i] = extracted[1].numbers[j]
           /\ extracted[1].numbers[i] = [value |-> "2.0", unit |-> "mg"]

====
